---- MODULE Spec2Model ----
(***************************************************************************)
(* Model of the player2many signaling server (src/player2many/server.js).  *)
(*                                                                         *)
(* The server is single-threaded JavaScript: a message handler runs        *)
(* without interruption up to its next `await` of a media-server call,     *)
(* and only there may other handlers run.  One action of this model is     *)
(* therefore one such run: the arrival of a message (up to the first       *)
(* await) or the resolution of an awaited media-server call (up to the     *)
(* next await or the return).  Every media-server call may succeed or      *)
(* fail.                                                                   *)
(***************************************************************************)
EXTENDS Integers, Sequences, FiniteSets

\* ---- bounds of the model ------------------------------------------------
NumSockets == 2     \* sockets that connect
MaxPublish == 2     \* CLIENT_START_PUBLISH messages handled
MaxOffers  == 2     \* CLIENT_SDP_OFFER messages handled
MaxCands   == 2     \* CLIENT_ICE_CANDIDATE messages handled per socket
MaxMsgs    == 4     \* messages, closes and endpoint events handled in all
MaxCloses  == 1     \* connections that close
MaxDebug   == 1     \* CLIENT_DEBUG_DOT messages handled

NULL == 0           \* JavaScript null, for object references 1, 2, ...

VARIABLES
  client,           \* global.kurento.client is set
  serverSocket,     \* global.server.socket: the socket that connected last
  nsockets,         \* sockets 1..nsockets have connected
  closed,           \* socket ids whose connection has closed
  gen,              \* history: reconnections so far, per socket id
  pipeline,         \* global.kurento.pipeline (NULL or a pipeline)
  playerEndpoint,   \* global.kurento.playerEndpoint (NULL or a player)
  npipelines,       \* media server: pipelines 1..npipelines were created
  players,          \* media server: players[k] = the pipeline of player k
  endpoints,        \* media server: the WebRtcEndpoints created
  connections,      \* media server: <<player, endpoint>> pairs connected
  sessions,         \* global.sessions: socket id -> Session object
  sessObjs,         \* the Session objects constructed so far
  pub,              \* the calls of handleStartPublish
  off,              \* the calls of handleSdpOffer
  ncand,            \* candidates handled so far, per socket
  preOffer,         \* history: candidates that arrived before any offer
  answers,          \* SERVER_SDP_ANSWER messages emitted, per socket
  serverIce,        \* SERVER_ICE_CANDIDATE: per socket, the endpoints whose
                    \* candidates were emitted to it
  dbg,              \* the calls of handleDebugDot
  uncaught          \* errors that left a handler as a rejected promise

vars == <<client, serverSocket, nsockets, closed, gen, pipeline, playerEndpoint,
          npipelines, players, endpoints, connections, sessions, sessObjs,
          pub, off, ncand, preOffer, answers, serverIce, dbg, uncaught>>

Sockets == 1..NumSockets

Range(q) == {q[i] : i \in 1..Len(q)}

RECURSIVE Sum(_, _)
Sum(f, n) == IF n = 0 THEN 0 ELSE f[n] + Sum(f, n - 1)

\* Connections closed so far.
Closes == Sum(gen, NumSockets) + Cardinality(closed)

\* Candidates of endpoints emitted so far.
Found == Cardinality(UNION {serverIce[s] \X {s} : s \in Sockets})

\* Client messages, closes and endpoint events handled so far, and whether
\* one more fits the bound.
Handled ==
  Len(pub) + Len(off) + Len(dbg) + Sum(ncand, NumSockets) + Closes + Found
MayHandle == Handled < MaxMsgs

\* ---- application state --------------------------------------------------

\* class Session: a fresh object for a socket.  `enqueued` is history: every
\* candidate ever pushed onto pendingCandidates, in push order; `gen` is
\* history: which connection of the socket id the session was made for.
Session(socket) ==
  [socket |-> socket, webrtcEndpoint |-> NULL,
   pendingCandidates |-> <<>>, enqueued |-> <<>>, gen |-> gen[socket]]

\* Socket id s has an open connection: it can send messages.
Connected(s) == s \in 1..nsockets /\ s \notin closed

Init ==
  /\ client = FALSE
  /\ serverSocket = NULL
  /\ nsockets = 0
  /\ closed = {}
  /\ gen = [s \in Sockets |-> 0]
  /\ pipeline = NULL
  /\ playerEndpoint = NULL
  /\ npipelines = 0
  /\ players = <<>>
  /\ endpoints = <<>>
  /\ connections = {}
  /\ sessions = [s \in Sockets |-> NULL]
  /\ sessObjs = <<>>
  /\ pub = <<>>
  /\ off = <<>>
  /\ ncand = [s \in Sockets |-> 0]
  /\ preOffer = [s \in Sockets |-> <<>>]
  /\ answers = [s \in Sockets |-> 0]
  /\ serverIce = [s \in Sockets |-> {}]
  /\ dbg = <<>>
  /\ uncaught = 0

\* new KurentoClient(url, callback): the callback stores the client.
KurentoClientConnected ==
  /\ client = FALSE
  /\ client' = TRUE
  /\ UNCHANGED <<serverIce, dbg, uncaught, serverSocket, nsockets, closed, gen, pipeline, playerEndpoint,
                 npipelines, players, endpoints, connections, sessions,
                 sessObjs, pub, off, ncand, preOffer, answers>>

\* socketServer.on("connect"): a socket connects, its handlers are set.
SocketConnect ==
  /\ nsockets < NumSockets
  /\ nsockets' = nsockets + 1
  /\ serverSocket' = nsockets + 1
  /\ UNCHANGED <<serverIce, dbg, uncaught, client, closed, gen, pipeline, playerEndpoint, npipelines,
                 players, endpoints, connections, sessions, sessObjs, pub,
                 off, ncand, preOffer, answers>>

\* The connection of socket id s closes.  The server registers no
\* "disconnect" handler, so nothing of its state changes.
SocketDisconnect(s) ==
  /\ Connected(s)
  /\ Closes < MaxCloses
  /\ MayHandle
  /\ closed' = closed \cup {s}
  /\ UNCHANGED <<serverIce, dbg, uncaught, client, serverSocket, nsockets, gen, pipeline,
                 playerEndpoint, npipelines, players, endpoints, connections,
                 sessions, sessObjs, pub, off, ncand, preOffer, answers>>

\* socketServer.on("connect") for a new connection that carries the id s of
\* a closed one.
SocketReconnect(s) ==
  /\ s \in closed
  /\ closed' = closed \ {s}
  /\ gen' = [gen EXCEPT ![s] = @ + 1]
  /\ serverSocket' = s
  /\ UNCHANGED <<serverIce, dbg, uncaught, client, nsockets, pipeline, playerEndpoint, npipelines,
                 players, endpoints, connections, sessions, sessObjs, pub,
                 off, ncand, preOffer, answers>>

\* ---- handleStartPublish -------------------------------------------------

\* CLIENT_START_PUBLISH arrives: handleStartPublish runs up to the await of
\* client.create("MediaPipeline").  With no client yet the call throws a
\* TypeError inside the try block, which is caught and logged.
\* The handler is not given the socket the message arrived on.
\* `hadPipeline` is history: a pipeline existed when the message arrived.
HandleStartPublish ==
  /\ \E s \in Sockets : Connected(s)
  /\ Len(pub) < MaxPublish
  /\ MayHandle
  /\ pub' = Append(pub, [pc |-> IF client THEN "awaitPipeline" ELSE "failed",
                         pipeline |-> NULL, playerEndpoint |-> NULL,
                         hadPipeline |-> pipeline # NULL])
  /\ UNCHANGED <<serverIce, dbg, uncaught, client, serverSocket, nsockets, closed, gen, pipeline, playerEndpoint,
                 npipelines, players, endpoints, connections, sessions,
                 sessObjs, off, ncand, preOffer, answers>>

\* client.create("MediaPipeline") resolves or rejects.
PipelineCreateResolved(p, ok) ==
  /\ pub[p].pc = "awaitPipeline"
  /\ IF ok
       THEN /\ npipelines' = npipelines + 1
            /\ pipeline' = npipelines + 1
            /\ pub' = [pub EXCEPT ![p].pc = "awaitPlayer",
                                  ![p].pipeline = npipelines + 1]
       ELSE /\ pub' = [pub EXCEPT ![p].pc = "failed"]
            /\ UNCHANGED <<npipelines, pipeline>>
  /\ UNCHANGED <<serverIce, dbg, uncaught, client, serverSocket, nsockets, closed, gen, playerEndpoint,
                 players,
                 endpoints, connections, sessions, sessObjs, off, ncand,
                 preOffer, answers>>

\* pipeline.create("PlayerEndpoint") resolves or rejects.
PlayerCreateResolved(p, ok) ==
  /\ pub[p].pc = "awaitPlayer"
  /\ IF ok
       THEN /\ players' = Append(players, pub[p].pipeline)
            /\ playerEndpoint' = Len(players) + 1
            /\ pub' = [pub EXCEPT ![p].pc = "awaitPlay",
                                  ![p].playerEndpoint = Len(players) + 1]
       ELSE /\ pub' = [pub EXCEPT ![p].pc = "failed"]
            /\ UNCHANGED <<players, playerEndpoint>>
  /\ UNCHANGED <<serverIce, dbg, uncaught, client, serverSocket, nsockets, closed, gen, pipeline, npipelines,
                 endpoints, connections, sessions, sessObjs, off, ncand,
                 preOffer, answers>>

\* playerEndpoint.play() resolves or rejects.
PlayResolved(p, ok) ==
  /\ pub[p].pc = "awaitPlay"
  /\ pub' = [pub EXCEPT ![p].pc = IF ok THEN "done" ELSE "failed"]
  /\ UNCHANGED <<serverIce, dbg, uncaught, client, serverSocket, nsockets, closed, gen, pipeline, playerEndpoint,
                 npipelines, players, endpoints, connections, sessions,
                 sessObjs, off, ncand, preOffer, answers>>

\* ---- global.sessions and the candidate queue ----------------------------

\* A has() that is never true: the duplicate-session check left out.
SessionsHasNever(s) == FALSE

\* A has() asked about global.server.socket instead of the offer's socket.
SessionsHasServerSocket(s) == serverSocket # NULL /\ sessions[serverSocket] # NULL

\* global.sessions.has(sessionId)
SessionsHas(s) == sessions[s] # NULL

\* A registry that forgets the session it is given.
SessionsSetNothing(s, u) == sessions

\* global.sessions.set(sessionId, session)
SessionsSet(s, u) == [sessions EXCEPT ![s] = u]

\* pop() in place of shift(): the queue is taken from its tail.
QueuePop(q) == [item |-> q[Len(q)], rest |-> SubSeq(q, 1, Len(q) - 1)]

\* pendingCandidates.shift(): the first element and the queue without it.
QueueShift(q) == [item |-> Head(q), rest |-> Tail(q)]

\* pendingCandidates.push(candidate)
QueuePush(q, c) == Append(q, c)

\* ---- handleIceCandidate -------------------------------------------------

\* handleIceCandidate(socket, candidate) up to its await, on the Session
\* objects `objs`: the candidate goes to the endpoint of the socket's
\* session when that endpoint exists ...
IceApplies(objs, s) ==
  SessionsHas(s) /\ objs[sessions[s]].webrtcEndpoint # NULL

\* ... is queued when the session has no endpoint yet ...
IceQueues(objs, s) ==
  SessionsHas(s) /\ objs[sessions[s]].webrtcEndpoint = NULL

\* ... and is skipped with a warning when the socket has no session.
\* The WebRtcEndpoints after the call: addIceCandidate invoked, or nothing.
IceEndpoints(objs, s, c) ==
  IF IceApplies(objs, s)
    THEN [endpoints EXCEPT
            ![objs[sessions[s]].webrtcEndpoint].applied = Append(@, c)]
    ELSE endpoints

\* A lookup that falls back to every Session when the socket has none.
IceSessionsBroadcast(objs, s, c) ==
  IF IceQueues(objs, s)
    THEN [objs EXCEPT
            ![sessions[s]].pendingCandidates = QueuePush(@, c),
            ![sessions[s]].enqueued = Append(@, c)]
    ELSE IF SessionsHas(s)
      THEN objs
      ELSE [u \in DOMAIN objs |->
              [objs[u] EXCEPT !.pendingCandidates = QueuePush(@, c)]]

\* The Session objects after the call: the candidate pushed, or nothing.
IceSessions(objs, s, c) ==
  IF IceQueues(objs, s)
    THEN [objs EXCEPT
            ![sessions[s]].pendingCandidates = QueuePush(@, c),
            ![sessions[s]].enqueued = Append(@, c)]
    ELSE objs

\* CLIENT_ICE_CANDIDATE arrives on socket s.  The candidate is named by its
\* socket and its arrival number.  The awaited addIceCandidate only logs
\* when it rejects, so the handler is one step.
HandleIceCandidate(s) ==
  /\ Connected(s)
  /\ ncand[s] < MaxCands
  /\ MayHandle
  /\ LET c == <<s, ncand[s] + 1>> IN
       /\ ncand' = [ncand EXCEPT ![s] = @ + 1]
       /\ endpoints' = IceEndpoints(sessObjs, s, c)
       /\ sessObjs' = IceSessions(sessObjs, s, c)
       /\ preOffer' = IF \E o \in 1..Len(off) : off[o].socket = s
                        THEN preOffer
                        ELSE [preOffer EXCEPT ![s] = Append(@, c)]
  /\ UNCHANGED <<serverIce, dbg, uncaught, client, serverSocket, nsockets, closed, gen, pipeline, playerEndpoint,
                 npipelines, players, connections, sessions, pub, off,
                 answers>>

\* ---- handleSdpOffer -----------------------------------------------------

\* CLIENT_SDP_OFFER arrives on socket s: handleSdpOffer runs up to the await
\* of pipeline.create("WebRtcEndpoint").  With no pipeline the call throws a
\* TypeError inside the try block, which is caught and logged.
\* History fields: `hadSession` (the socket had a session when the offer
\* arrived), `ncalls` (media-server calls this handler invoked), `errors`
\* (rejected addIceCandidate calls of its drain), `pubsBefore` (publish
\* requests handled before the offer arrived), `rejected` (the handler
\* returned because a media-server call rejected).
HandleSdpOffer(s) ==
  /\ Connected(s)
  /\ Len(off) < MaxOffers
  /\ MayHandle
  /\ LET rec == [socket |-> s, pc |-> "skipped", pipeline |-> pipeline,
                 session |-> NULL, webrtcEndpoint |-> NULL,
                 playerEndpoint |-> NULL, hadSession |-> sessions[s] # NULL,
                 ncalls |-> 0, errors |-> 0, pubsBefore |-> Len(pub),
                 rejected |-> FALSE]
         u == Len(sessObjs) + 1
     IN IF SessionsHas(s)
          THEN /\ off' = Append(off, rec)
               /\ UNCHANGED <<sessions, sessObjs>>
          ELSE /\ sessObjs' = Append(sessObjs, Session(s))
               /\ sessions' = SessionsSet(s, u)
               /\ off' = Append(off,
                    IF pipeline = NULL
                      THEN [rec EXCEPT !.pc = "failed", !.session = u]
                      ELSE [rec EXCEPT !.pc = "awaitCreate", !.session = u,
                                       !.ncalls = 1])
  /\ UNCHANGED <<serverIce, dbg, uncaught, client, serverSocket, nsockets, closed, gen, pipeline, playerEndpoint,
                 npipelines, players, endpoints, connections, pub, ncand,
                 preOffer, answers>>

\* pipeline.create("WebRtcEndpoint") resolves or rejects.  On success the
\* endpoint is stored in the session, and the handler goes on to connect
\* the publisher's endpoint, if there is one.  An endpoint is `released`
\* once release() was called on it; no handler of the server calls it.
WebRtcCreateResolved(o, ok) ==
  /\ off[o].pc = "awaitCreate"
  /\ IF ok
       THEN LET e == Len(endpoints) + 1 IN
            /\ endpoints' = Append(endpoints,
                 [pipeline |-> off[o].pipeline, socket |-> off[o].socket,
                  applied |-> <<>>, processed |-> FALSE,
                  released |-> FALSE])
            /\ sessObjs' = [sessObjs EXCEPT
                              ![off[o].session].webrtcEndpoint = e]
            /\ off' = IF playerEndpoint = NULL
                 THEN [off EXCEPT ![o].pc = "failed",
                                  ![o].webrtcEndpoint = e]
                 ELSE [off EXCEPT ![o].pc = "awaitConnect",
                                  ![o].webrtcEndpoint = e,
                                  ![o].playerEndpoint = playerEndpoint,
                                  ![o].ncalls = @ + 1]
       ELSE /\ off' = [off EXCEPT ![o].pc = "failed", ![o].rejected = TRUE]
            /\ UNCHANGED <<endpoints, sessObjs>>
  /\ UNCHANGED <<serverIce, dbg, uncaught, client, serverSocket, nsockets, closed, gen, pipeline, playerEndpoint,
                 npipelines, players, connections, sessions, pub, ncand,
                 preOffer, answers>>

\* A catch block without its return: a rejected connect is logged and the
\* handler goes on to processOffer.
ConnectResolvedNoReturn(o, ok) ==
  /\ off[o].pc = "awaitConnect"
  /\ connections' = IF ok THEN connections \cup
                       {<<off[o].playerEndpoint, off[o].webrtcEndpoint>>}
                     ELSE connections
  /\ off' = [off EXCEPT ![o].pc = "awaitProcessOffer", ![o].ncalls = @ + 1]
  /\ UNCHANGED <<serverIce, dbg, uncaught, client, serverSocket, nsockets, closed, gen, pipeline, playerEndpoint,
                 npipelines, players, endpoints, sessions, sessObjs, pub,
                 ncand, preOffer, answers>>

\* playerEndpoint.connect(webrtcEndpoint) resolves or rejects.
ConnectResolved(o, ok) ==
  /\ off[o].pc = "awaitConnect"
  /\ IF ok
       THEN /\ connections' = connections \cup
                 {<<off[o].playerEndpoint, off[o].webrtcEndpoint>>}
            /\ off' = [off EXCEPT ![o].pc = "awaitProcessOffer",
                                  ![o].ncalls = @ + 1]
       ELSE /\ off' = [off EXCEPT ![o].pc = "failed", ![o].rejected = TRUE]
            /\ UNCHANGED connections
  /\ UNCHANGED <<serverIce, dbg, uncaught, client, serverSocket, nsockets, closed, gen, pipeline, playerEndpoint,
                 npipelines, players, endpoints, sessions, sessObjs, pub,
                 ncand, preOffer, answers>>

\* webrtcEndpoint.processOffer(sdpOffer) resolves or rejects.
ProcessOfferResolved(o, ok) ==
  /\ off[o].pc = "awaitProcessOffer"
  /\ IF ok
       THEN /\ endpoints' = [endpoints EXCEPT
                               ![off[o].webrtcEndpoint].processed = TRUE]
            /\ off' = [off EXCEPT ![o].pc = "awaitGather",
                                  ![o].ncalls = @ + 1]
       ELSE /\ off' = [off EXCEPT ![o].pc = "failed", ![o].rejected = TRUE]
            /\ UNCHANGED endpoints
  /\ UNCHANGED <<serverIce, dbg, uncaught, client, serverSocket, nsockets, closed, gen, pipeline, playerEndpoint,
                 npipelines, players, connections, sessions,
                 sessObjs, pub, ncand, preOffer, answers>>

\* An `if` in place of the `while`: at most one queued candidate is handed
\* over before the answer is emitted.
DrainPendingOnce(o, errs) ==
  LET u == off[o].session
      s == off[o].socket
      q == sessObjs[u].pendingCandidates
  IN /\ answers' = [answers EXCEPT ![s] = @ + 1]
     /\ IF q = <<>>
          THEN /\ off' = [off EXCEPT ![o].pc = "answered",
                                     ![o].errors = errs]
               /\ UNCHANGED <<endpoints, sessObjs>>
          ELSE LET sh == QueueShift(q)
                   objs == [sessObjs EXCEPT ![u].pendingCandidates = sh.rest]
               IN /\ endpoints' = IceEndpoints(objs, s, sh.item)
                  /\ sessObjs' = IceSessions(objs, s, sh.item)
                  /\ off' = [off EXCEPT ![o].pc = "answered",
                                        ![o].errors = errs,
                                        ![o].ncalls = @ + 1]

\* The loop over session.consumerData.pendingCandidates, from its test to
\* the next await or to socket.emit("SERVER_SDP_ANSWER"): a queued
\* candidate is shifted off and handed to handleIceCandidate, which runs
\* up to its await of addIceCandidate; with the queue empty the answer is
\* emitted and the handler returns.  `errs` is the handler's new error count.
DrainPending(o, errs) ==
  LET u == off[o].session
      s == off[o].socket
      q == sessObjs[u].pendingCandidates
  IN IF q = <<>>
       THEN /\ answers' = [answers EXCEPT ![s] = @ + 1]
            /\ off' = [off EXCEPT ![o].pc = "answered", ![o].errors = errs]
            /\ UNCHANGED <<endpoints, sessObjs>>
       ELSE LET sh == QueueShift(q)
                objs == [sessObjs EXCEPT ![u].pendingCandidates = sh.rest]
            IN /\ endpoints' = IceEndpoints(objs, s, sh.item)
               /\ sessObjs' = IceSessions(objs, s, sh.item)
               /\ off' = [off EXCEPT
                    ![o].pc = "awaitAddIce", ![o].errors = errs,
                    ![o].ncalls = IF IceApplies(objs, s) THEN @ + 1 ELSE @]
               /\ UNCHANGED answers

\* webrtcEndpoint.gatherCandidates() resolves or rejects; on success the
\* pending candidates are drained.
GatherResolved(o, ok) ==
  /\ off[o].pc = "awaitGather"
  /\ IF ok
       THEN DrainPending(o, off[o].errors)
       ELSE /\ off' = [off EXCEPT ![o].pc = "failed", ![o].rejected = TRUE]
            /\ UNCHANGED <<endpoints, sessObjs, answers>>
  /\ UNCHANGED <<serverIce, dbg, uncaught, client, serverSocket, nsockets, closed, gen, pipeline, playerEndpoint,
                 npipelines, players, connections, sessions, pub, ncand,
                 preOffer>>

\* A drain that gives up the offer at the first rejected addIceCandidate.
AddIceResolvedAborting(o, ok) ==
  /\ off[o].pc = "awaitAddIce"
  /\ IF ok
       THEN DrainPending(o, off[o].errors)
       ELSE /\ off' = [off EXCEPT ![o].pc = "failed", ![o].errors = @ + 1]
            /\ UNCHANGED <<endpoints, sessObjs, answers>>
  /\ UNCHANGED <<serverIce, dbg, uncaught, client, serverSocket, nsockets, closed, gen,
                 pipeline, playerEndpoint, npipelines, players, connections,
                 sessions, pub, ncand, preOffer>>

\* The addIceCandidate awaited inside the drain resolves or rejects.  A
\* rejection is caught and logged by handleIceCandidate; either way the
\* loop goes on.
AddIceResolved(o, ok) ==
  /\ off[o].pc = "awaitAddIce"
  /\ DrainPending(o, IF ok THEN off[o].errors ELSE off[o].errors + 1)
  /\ UNCHANGED <<serverIce, dbg, uncaught, client, serverSocket, nsockets, closed, gen, pipeline, playerEndpoint,
                 npipelines, players, connections, sessions, pub, ncand,
                 preOffer>>

\* ---- handleDebugDot -----------------------------------------------------

\* CLIENT_DEBUG_DOT arrives: handleDebugDot runs up to the await of
\* global.kurento.pipeline.getGstreamerDot().  With no pipeline the call
\* throws a TypeError inside the try block, which is caught and logged, and
\* the handler returns.  `pipelineDot` and `playerDot` tell whether the
\* graph was never asked for ("none"), is awaited ("asked"), was obtained
\* or was not ("failed"); `pipelineFile` and `playerFile` tell the same of
\* the Fs.writeFile of each graph ("none", "writing", "saved", "failed").
HandleDebugDot ==
  /\ \E s \in Sockets : Connected(s)
  /\ Len(dbg) < MaxDebug
  /\ MayHandle
  /\ dbg' = Append(dbg,
       [pc |-> IF pipeline = NULL THEN "failed" ELSE "awaitPipelineDot",
        pipelineDot |-> IF pipeline = NULL THEN "failed" ELSE "asked",
        playerDot |-> "none", pipelineFile |-> "none", playerFile |-> "none"])
  /\ UNCHANGED <<serverIce, uncaught, client, serverSocket, nsockets, closed, gen,
                 pipeline, playerEndpoint, npipelines, players, endpoints,
                 connections, sessions, sessObjs, pub, off, ncand, preOffer,
                 answers>>

\* getGstreamerDot() resolves or rejects.  On success pipeline.dot is
\* handed to Fs.writeFile, which is not awaited, and the handler goes on to
\* global.kurento.playerEndpoint.getElementGstreamerDot(), a caught
\* TypeError when there is no player.  On rejection the handler returns.
PipelineDotResolved(d, ok) ==
  /\ dbg[d].pc = "awaitPipelineDot"
  /\ dbg' = IF ok
       THEN [dbg EXCEPT
               ![d].pipelineDot = "obtained",
               ![d].pipelineFile = "writing",
               ![d].playerDot = IF playerEndpoint = NULL THEN "failed"
                                ELSE "asked",
               ![d].pc = IF playerEndpoint = NULL THEN "failed"
                         ELSE "awaitPlayerDot"]
       ELSE [dbg EXCEPT ![d].pipelineDot = "failed", ![d].pc = "failed"]
  /\ UNCHANGED <<serverIce, uncaught, client, serverSocket, nsockets, closed, gen,
                 pipeline, playerEndpoint, npipelines, players, endpoints,
                 connections, sessions, sessObjs, pub, off, ncand, preOffer,
                 answers>>

\* getElementGstreamerDot() resolves or rejects.  On success
\* playerEndpoint.dot is handed to Fs.writeFile and the handler returns.
PlayerDotResolved(d, ok) ==
  /\ dbg[d].pc = "awaitPlayerDot"
  /\ dbg' = IF ok
       THEN [dbg EXCEPT ![d].playerDot = "obtained",
                        ![d].playerFile = "writing", ![d].pc = "done"]
       ELSE [dbg EXCEPT ![d].playerDot = "failed", ![d].pc = "failed"]
  /\ UNCHANGED <<serverIce, uncaught, client, serverSocket, nsockets, closed, gen,
                 pipeline, playerEndpoint, npipelines, players, endpoints,
                 connections, sessions, sessObjs, pub, off, ncand, preOffer,
                 answers>>

\* The callback of Fs.writeFile("pipeline.dot") runs: the file was saved or
\* the error is logged.
PipelineFileWritten(d, ok) ==
  /\ dbg[d].pipelineFile = "writing"
  /\ dbg' = [dbg EXCEPT ![d].pipelineFile = IF ok THEN "saved" ELSE "failed"]
  /\ UNCHANGED <<serverIce, uncaught, client, serverSocket, nsockets, closed, gen,
                 pipeline, playerEndpoint, npipelines, players, endpoints,
                 connections, sessions, sessObjs, pub, off, ncand, preOffer,
                 answers>>

\* The callback of Fs.writeFile("playerEndpoint.dot") runs.
PlayerFileWritten(d, ok) ==
  /\ dbg[d].playerFile = "writing"
  /\ dbg' = [dbg EXCEPT ![d].playerFile = IF ok THEN "saved" ELSE "failed"]
  /\ UNCHANGED <<serverIce, uncaught, client, serverSocket, nsockets, closed, gen,
                 pipeline, playerEndpoint, npipelines, players, endpoints,
                 connections, sessions, sessObjs, pub, off, ncand, preOffer,
                 answers>>

Next ==
  \/ KurentoClientConnected
  \/ SocketConnect
  \/ HandleStartPublish
  \/ \E p \in 1..Len(pub), ok \in BOOLEAN : PipelineCreateResolved(p, ok)
  \/ \E p \in 1..Len(pub), ok \in BOOLEAN : PlayerCreateResolved(p, ok)
  \/ \E p \in 1..Len(pub), ok \in BOOLEAN : PlayResolved(p, ok)
  \/ \E s \in Sockets : HandleIceCandidate(s)
  \/ \E s \in Sockets : HandleSdpOffer(s)
  \/ \E o \in 1..Len(off), ok \in BOOLEAN : WebRtcCreateResolved(o, ok)
  \/ \E o \in 1..Len(off), ok \in BOOLEAN : ConnectResolved(o, ok)
  \/ \E o \in 1..Len(off), ok \in BOOLEAN : ProcessOfferResolved(o, ok)
  \/ \E o \in 1..Len(off), ok \in BOOLEAN : GatherResolved(o, ok)
  \/ \E o \in 1..Len(off), ok \in BOOLEAN : AddIceResolved(o, ok)

Spec == Init /\ [][Next]_vars

\* The server with connections that close and socket ids that are used
\* again.  The server has no "disconnect" handler and no handler reads
\* global.server.socket, so closing and reconnecting change nothing that a
\* handler reads: they only decide which sockets can send messages.
NextClose ==
  \/ Next
  \/ \E s \in Sockets : SocketDisconnect(s)
  \/ \E s \in Sockets : SocketReconnect(s)

SpecClose == Init /\ [][NextClose]_vars

\* The server with the debug export.  handleDebugDot reads the publisher
\* state and writes nothing that another handler reads.
NextDebug ==
  \/ Next
  \/ HandleDebugDot
  \/ \E d \in 1..Len(dbg), ok \in BOOLEAN : PipelineDotResolved(d, ok)
  \/ \E d \in 1..Len(dbg), ok \in BOOLEAN : PlayerDotResolved(d, ok)
  \/ \E d \in 1..Len(dbg), ok \in BOOLEAN : PipelineFileWritten(d, ok)
  \/ \E d \in 1..Len(dbg), ok \in BOOLEAN : PlayerFileWritten(d, ok)

SpecDebug == Init /\ [][NextDebug]_vars

\* ---- the IceCandidateFound listener ------------------------------------

\* The socket global.server.socket, whichever offer the endpoint is of.
IceFoundRecipientShared(o) == serverSocket

\* The `socket` that the listener of an offer's endpoint closes over: the
\* parameter of the handleSdpOffer call that created the endpoint.
IceFoundRecipient(o) == off[o].socket

\* The media server reports a candidate of the endpoint that offer o
\* created: the listener registered after the creation emits it as
\* SERVER_ICE_CANDIDATE.
IceCandidateFound(o) ==
  /\ off[o].webrtcEndpoint # NULL
  /\ MayHandle
  /\ off[o].webrtcEndpoint \notin serverIce[IceFoundRecipient(o)]
  /\ serverIce' = [serverIce EXCEPT
                     ![IceFoundRecipient(o)] = @ \cup {off[o].webrtcEndpoint}]
  /\ UNCHANGED <<dbg, uncaught, client, serverSocket, nsockets, closed, gen,
                 pipeline, playerEndpoint, npipelines, players, endpoints,
                 connections, sessions, sessObjs, pub, off, ncand, preOffer,
                 answers>>

\* The server with the events of its WebRtcEndpoints.
NextIce ==
  \/ Next
  \/ \E o \in 1..Len(off) : IceCandidateFound(o)

SpecIce == Init /\ [][NextIce]_vars

\* ---- the server of src/unnamed/part_000 ---------------------------------
\* The same application state and the same four messages, handled without
\* try blocks: an error thrown in a handler, or a rejection of a call the
\* handler awaits, leaves the handler as a rejected promise that nothing
\* catches (pc "threw").

\* handleStartPublish up to the await of client.create("MediaPipeline");
\* with no client the call throws a TypeError.
P000HandleStartPublish ==
  /\ \E s \in Sockets : Connected(s)
  /\ Len(pub) < MaxPublish
  /\ MayHandle
  /\ pub' = Append(pub, [pc |-> IF client THEN "awaitPipeline" ELSE "threw",
                         pipeline |-> NULL, playerEndpoint |-> NULL,
                         hadPipeline |-> pipeline # NULL])
  /\ uncaught' = IF client THEN uncaught ELSE uncaught + 1
  /\ UNCHANGED <<serverIce, dbg, client, serverSocket, nsockets, closed, gen, pipeline,
                 playerEndpoint, npipelines, players, endpoints, connections,
                 sessions, sessObjs, off, ncand, preOffer, answers>>

\* client.create("MediaPipeline") resolves or rejects.
P000PipelineCreateResolved(p, ok) ==
  /\ pub[p].pc = "awaitPipeline"
  /\ IF ok
       THEN /\ npipelines' = npipelines + 1
            /\ pipeline' = npipelines + 1
            /\ pub' = [pub EXCEPT ![p].pc = "awaitPlayer",
                                  ![p].pipeline = npipelines + 1]
            /\ UNCHANGED uncaught
       ELSE /\ pub' = [pub EXCEPT ![p].pc = "threw"]
            /\ uncaught' = uncaught + 1
            /\ UNCHANGED <<npipelines, pipeline>>
  /\ UNCHANGED <<serverIce, dbg, client, serverSocket, nsockets, closed, gen,
                 playerEndpoint, players, endpoints, connections, sessions,
                 sessObjs, off, ncand, preOffer, answers>>

\* pipeline.create("PlayerEndpoint") resolves or rejects.  On success
\* playerEndpoint.play() is called and not awaited, and the handler returns.
P000PlayerCreateResolved(p, ok) ==
  /\ pub[p].pc = "awaitPlayer"
  /\ IF ok
       THEN /\ players' = Append(players, pub[p].pipeline)
            /\ playerEndpoint' = Len(players) + 1
            /\ pub' = [pub EXCEPT ![p].pc = "done",
                                  ![p].playerEndpoint = Len(players) + 1]
            /\ UNCHANGED uncaught
       ELSE /\ pub' = [pub EXCEPT ![p].pc = "threw"]
            /\ uncaught' = uncaught + 1
            /\ UNCHANGED <<players, playerEndpoint>>
  /\ UNCHANGED <<serverIce, dbg, client, serverSocket, nsockets, closed, gen, pipeline,
                 npipelines, endpoints, connections, sessions, sessObjs, off,
                 ncand, preOffer, answers>>

\* handleIceCandidate: the candidate is applied, queued or skipped as in
\* server.js; addIceCandidate is not awaited.
P000HandleIceCandidate(s) == HandleIceCandidate(s)

\* handleSdpOffer up to the await of pipeline.create("WebRtcEndpoint"); with
\* no pipeline the call throws a TypeError.
P000HandleSdpOffer(s) ==
  /\ Connected(s)
  /\ Len(off) < MaxOffers
  /\ MayHandle
  /\ LET rec == [socket |-> s, pc |-> "skipped", pipeline |-> pipeline,
                 session |-> NULL, webrtcEndpoint |-> NULL,
                 playerEndpoint |-> NULL, hadSession |-> sessions[s] # NULL,
                 ncalls |-> 0, errors |-> 0, pubsBefore |-> Len(pub),
                 rejected |-> FALSE]
         u == Len(sessObjs) + 1
     IN IF SessionsHas(s)
          THEN /\ off' = Append(off, rec)
               /\ UNCHANGED <<sessions, sessObjs, uncaught>>
          ELSE /\ sessObjs' = Append(sessObjs, Session(s))
               /\ sessions' = SessionsSet(s, u)
               /\ off' = Append(off,
                    IF pipeline = NULL
                      THEN [rec EXCEPT !.pc = "threw", !.session = u]
                      ELSE [rec EXCEPT !.pc = "awaitCreate", !.session = u,
                                       !.ncalls = 1])
               /\ uncaught' = IF pipeline = NULL THEN uncaught + 1
                               ELSE uncaught
  /\ UNCHANGED <<serverIce, dbg, client, serverSocket, nsockets, closed, gen, pipeline,
                 playerEndpoint, npipelines, players, endpoints, connections,
                 pub, ncand, preOffer, answers>>

\* pipeline.create("WebRtcEndpoint") resolves or rejects.  On success the
\* endpoint is stored in the session, every queued candidate is shifted off
\* and given to addIceCandidate (not awaited), and processOffer is called.
P000WebRtcCreateResolved(o, ok) ==
  /\ off[o].pc = "awaitCreate"
  /\ IF ok
       THEN LET e == Len(endpoints) + 1
                u == off[o].session
                q == sessObjs[u].pendingCandidates
            IN
            /\ endpoints' = Append(endpoints,
                 [pipeline |-> off[o].pipeline, socket |-> off[o].socket,
                  applied |-> q, processed |-> FALSE, released |-> FALSE])
            /\ sessObjs' = [sessObjs EXCEPT ![u].webrtcEndpoint = e,
                                            ![u].pendingCandidates = <<>>]
            /\ off' = [off EXCEPT ![o].pc = "awaitProcessOffer",
                                  ![o].webrtcEndpoint = e,
                                  ![o].ncalls = @ + Len(q) + 1]
            /\ UNCHANGED uncaught
       ELSE /\ off' = [off EXCEPT ![o].pc = "threw", ![o].rejected = TRUE]
            /\ uncaught' = uncaught + 1
            /\ UNCHANGED <<endpoints, sessObjs>>
  /\ UNCHANGED <<serverIce, dbg, client, serverSocket, nsockets, closed, gen, pipeline,
                 playerEndpoint, npipelines, players, connections, sessions,
                 pub, ncand, preOffer, answers>>

\* processOffer resolves or rejects.  On success gatherCandidates is called
\* with a logging callback, the answer is emitted, and the publisher's
\* endpoint, if there is one, is connected.
P000ProcessOfferResolved(o, ok) ==
  /\ off[o].pc = "awaitProcessOffer"
  /\ IF ok
       THEN /\ endpoints' = [endpoints EXCEPT
                               ![off[o].webrtcEndpoint].processed = TRUE]
            /\ answers' = [answers EXCEPT ![off[o].socket] = @ + 1]
            /\ off' = IF playerEndpoint = NULL
                 THEN [off EXCEPT ![o].pc = "failed", ![o].ncalls = @ + 1]
                 ELSE [off EXCEPT ![o].pc = "awaitConnect",
                                  ![o].playerEndpoint = playerEndpoint,
                                  ![o].ncalls = @ + 2]
            /\ UNCHANGED uncaught
       ELSE /\ off' = [off EXCEPT ![o].pc = "threw", ![o].rejected = TRUE]
            /\ uncaught' = uncaught + 1
            /\ UNCHANGED <<endpoints, answers>>
  /\ UNCHANGED <<serverIce, dbg, client, serverSocket, nsockets, closed, gen, pipeline,
                 playerEndpoint, npipelines, players, connections, sessions,
                 sessObjs, pub, ncand, preOffer>>

\* playerEndpoint.connect(webrtcEndpoint) resolves or rejects.
P000ConnectResolved(o, ok) ==
  /\ off[o].pc = "awaitConnect"
  /\ IF ok
       THEN /\ connections' = connections \cup
                 {<<off[o].playerEndpoint, off[o].webrtcEndpoint>>}
            /\ off' = [off EXCEPT ![o].pc = "done"]
            /\ UNCHANGED uncaught
       ELSE /\ off' = [off EXCEPT ![o].pc = "threw", ![o].rejected = TRUE]
            /\ uncaught' = uncaught + 1
            /\ UNCHANGED connections
  /\ UNCHANGED <<serverIce, dbg, client, serverSocket, nsockets, closed, gen, pipeline,
                 playerEndpoint, npipelines, players, endpoints, sessions,
                 sessObjs, pub, ncand, preOffer, answers>>

\* handleDebugDot up to the await of pipeline.getGstreamerDot(); with no
\* pipeline the call throws a TypeError.
P000HandleDebugDot ==
  /\ \E s \in Sockets : Connected(s)
  /\ Len(dbg) < MaxDebug
  /\ MayHandle
  /\ dbg' = Append(dbg,
       [pc |-> IF pipeline = NULL THEN "threw" ELSE "awaitPipelineDot",
        pipelineDot |-> IF pipeline = NULL THEN "failed" ELSE "asked",
        playerDot |-> "none", pipelineFile |-> "none", playerFile |-> "none"])
  /\ uncaught' = IF pipeline = NULL THEN uncaught + 1 ELSE uncaught
  /\ UNCHANGED <<serverIce, client, serverSocket, nsockets, closed, gen, pipeline,
                 playerEndpoint, npipelines, players, endpoints, connections,
                 sessions, sessObjs, pub, off, ncand, preOffer, answers>>

\* getGstreamerDot() resolves or rejects.  On success pipeline.dot is
\* handed to Fs.writeFile and playerEndpoint.getElementGstreamerDot() is
\* called, a TypeError when there is no player.
P000PipelineDotResolved(d, ok) ==
  /\ dbg[d].pc = "awaitPipelineDot"
  /\ dbg' = IF ok
       THEN [dbg EXCEPT
               ![d].pipelineDot = "obtained",
               ![d].pipelineFile = "writing",
               ![d].playerDot = IF playerEndpoint = NULL THEN "failed"
                                ELSE "asked",
               ![d].pc = IF playerEndpoint = NULL THEN "threw"
                         ELSE "awaitPlayerDot"]
       ELSE [dbg EXCEPT ![d].pipelineDot = "failed", ![d].pc = "threw"]
  /\ uncaught' = IF ok /\ playerEndpoint # NULL THEN uncaught
                  ELSE uncaught + 1
  /\ UNCHANGED <<serverIce, client, serverSocket, nsockets, closed, gen, pipeline,
                 playerEndpoint, npipelines, players, endpoints, connections,
                 sessions, sessObjs, pub, off, ncand, preOffer, answers>>

\* getElementGstreamerDot() resolves or rejects.
P000PlayerDotResolved(d, ok) ==
  /\ dbg[d].pc = "awaitPlayerDot"
  /\ dbg' = IF ok
       THEN [dbg EXCEPT ![d].playerDot = "obtained",
                        ![d].playerFile = "writing", ![d].pc = "done"]
       ELSE [dbg EXCEPT ![d].playerDot = "failed", ![d].pc = "threw"]
  /\ uncaught' = IF ok THEN uncaught ELSE uncaught + 1
  /\ UNCHANGED <<serverIce, client, serverSocket, nsockets, closed, gen, pipeline,
                 playerEndpoint, npipelines, players, endpoints, connections,
                 sessions, sessObjs, pub, off, ncand, preOffer, answers>>

\* The callbacks of Fs.writeFile log the error, as in server.js.
P000PipelineFileWritten(d, ok) == PipelineFileWritten(d, ok)

P000PlayerFileWritten(d, ok) == PlayerFileWritten(d, ok)

NextP000 ==
  \/ KurentoClientConnected
  \/ SocketConnect
  \/ P000HandleStartPublish
  \/ \E p \in 1..Len(pub), ok \in BOOLEAN : P000PipelineCreateResolved(p, ok)
  \/ \E p \in 1..Len(pub), ok \in BOOLEAN : P000PlayerCreateResolved(p, ok)
  \/ \E s \in Sockets : P000HandleIceCandidate(s)
  \/ \E s \in Sockets : P000HandleSdpOffer(s)
  \/ \E o \in 1..Len(off), ok \in BOOLEAN : P000WebRtcCreateResolved(o, ok)
  \/ \E o \in 1..Len(off), ok \in BOOLEAN : P000ProcessOfferResolved(o, ok)
  \/ \E o \in 1..Len(off), ok \in BOOLEAN : P000ConnectResolved(o, ok)
  \/ P000HandleDebugDot
  \/ \E d \in 1..Len(dbg), ok \in BOOLEAN : P000PipelineDotResolved(d, ok)
  \/ \E d \in 1..Len(dbg), ok \in BOOLEAN : P000PlayerDotResolved(d, ok)
  \/ \E d \in 1..Len(dbg), ok \in BOOLEAN : P000PipelineFileWritten(d, ok)
  \/ \E d \in 1..Len(dbg), ok \in BOOLEAN : P000PlayerFileWritten(d, ok)

SpecP000 == Init /\ [][NextP000]_vars

\* The server with a single viewer: every message comes from socket 1.
NextViewer ==
  \/ KurentoClientConnected
  \/ nsockets = 0 /\ SocketConnect
  \/ HandleStartPublish
  \/ \E p \in 1..Len(pub), ok \in BOOLEAN : PipelineCreateResolved(p, ok)
  \/ \E p \in 1..Len(pub), ok \in BOOLEAN : PlayerCreateResolved(p, ok)
  \/ \E p \in 1..Len(pub), ok \in BOOLEAN : PlayResolved(p, ok)
  \/ HandleIceCandidate(1)
  \/ HandleSdpOffer(1)
  \/ \E o \in 1..Len(off), ok \in BOOLEAN : WebRtcCreateResolved(o, ok)
  \/ \E o \in 1..Len(off), ok \in BOOLEAN : ConnectResolved(o, ok)
  \/ \E o \in 1..Len(off), ok \in BOOLEAN : ProcessOfferResolved(o, ok)
  \/ \E o \in 1..Len(off), ok \in BOOLEAN : GatherResolved(o, ok)
  \/ \E o \in 1..Len(off), ok \in BOOLEAN : AddIceResolved(o, ok)

SpecViewer == Init /\ [][NextViewer]_vars
\* ---- properties ---------------------------------------------------------

Pubs == 1..Len(pub)
Offers == 1..Len(off)
SessionObjs == 1..Len(sessObjs)
Endpoints == 1..Len(endpoints)

\* The candidates of sequence q that are in the set S, in q's order.
Restrict(q, S) == LET In(c) == c \in S IN SelectSeq(q, In)

\* C1: when two or more publish requests were handled while no pipeline
\* existed yet (so they were suspended together at the pipeline-creation
\* await) and all requests have returned successfully, exactly one pipeline
\* and one source endpoint were created, and every caller's pair is the
\* pair in the shared publisher state.
C1_ConcurrentPublishCreatesOnePair ==
  ( /\ Cardinality({p \in Pubs : ~pub[p].hadPipeline}) >= 2
    /\ \A p \in Pubs : pub[p].pc = "done" )
  => /\ npipelines = 1
     /\ Len(players) = 1
     /\ \A p \in Pubs : /\ pub[p].pipeline = pipeline
                        /\ pub[p].playerEndpoint = playerEndpoint

\* C2: a publish request that is handled while a pipeline already exists
\* creates no pipeline and no source endpoint (so requests handled one
\* after the other create the pipeline at most once).
C2_PublishWithPipelineCreatesNothing ==
  \A p \in Pubs : pub[p].hadPipeline =>
    /\ pub[p].pipeline = NULL
    /\ pub[p].playerEndpoint = NULL

\* C3: in every state the shared publisher state has a source endpoint if
\* and only if it has a pipeline.
C3_PlayerIffPipeline ==
  (pipeline = NULL) <=> (playerEndpoint = NULL)

\* C4: whenever handleStartPublish returns after a failed backend call, the
\* publisher state is absent: pipeline and source endpoint are both null.
C4_FailedPublishResetsState ==
  [][\A p \in Pubs :
       (pub[p].pc # "failed" /\ pub'[p].pc = "failed")
       => (pipeline' = NULL /\ playerEndpoint' = NULL)]_vars

\* C5: once an offer has been answered, the candidates its socket sent
\* before the offer have all been applied to the offer's endpoint, in the
\* order they were sent.
C5_EarlyCandidatesApplied ==
  \A o \in Offers : off[o].pc = "answered" =>
    Restrict(endpoints[off[o].webrtcEndpoint].applied,
             Range(preOffer[off[o].socket])) = preOffer[off[o].socket]

\* C6: on every endpoint, addIceCandidate is invoked in the order in which
\* the candidates arrived (a candidate <<s, k>> is the k-th of socket s).
C6_AppliedInArrivalOrder ==
  \A e \in Endpoints :
    LET a == endpoints[e].applied IN
    \A i, j \in 1..Len(a) : i < j => a[i][2] < a[j][2]

\* C7: for every session, the queued candidates that have reached the
\* endpoint, followed by those still pending, are exactly the candidates
\* that were queued, in the order they were queued; and when the answer is
\* emitted none is pending any more.
C7_DrainKeepsQueueOrder ==
  /\ \A u \in SessionObjs :
       LET S == sessObjs[u]
           drained == IF S.webrtcEndpoint = NULL THEN <<>>
                      ELSE Restrict(endpoints[S.webrtcEndpoint].applied,
                                    Range(S.enqueued))
       IN drained \o S.pendingCandidates = S.enqueued
  /\ \A o \in Offers : off[o].pc = "answered" =>
       sessObjs[off[o].session].pendingCandidates = <<>>

\* A drain of two queued candidates has run to the end and the answer is out.
C7_Witness ==
  \E o \in Offers :
    /\ off[o].pc = "answered"
    /\ Len(sessObjs[off[o].session].enqueued) >= 2
    /\ Len(endpoints[off[o].webrtcEndpoint].applied) >= 2

\* C8: in every state a session whose endpoint exists has an empty queue of
\* pending candidates.
C8_EndpointImpliesEmptyQueue ==
  \A u \in SessionObjs :
    sessObjs[u].webrtcEndpoint # NULL => sessObjs[u].pendingCandidates = <<>>

\* C9: an offer that arrives for a socket that already has a session is
\* skipped: it invokes no media-server call and creates no endpoint; and no
\* socket ever gets more than one endpoint.
C9_SecondOfferRejected ==
  /\ \A o \in Offers : off[o].hadSession =>
       /\ off[o].pc = "skipped"
       /\ off[o].ncalls = 0
       /\ off[o].webrtcEndpoint = NULL
  /\ \A s \in Sockets :
       Cardinality({e \in Endpoints : endpoints[e].socket = s}) <= 1

\* A second offer was skipped while the first one, whose endpoint exists,
\* is still suspended at a media-server call.
C9_Witness ==
  \E o1, o2 \in Offers :
    /\ o1 < o2
    /\ off[o1].socket = off[o2].socket
    /\ off[o1].pc = "awaitProcessOffer"
    /\ off[o2].pc = "skipped"

\* C10: for every socket, the Session objects ever constructed for it are
\* exactly the one that global.sessions holds for it, or none.
C10_OneSessionPerSocket ==
  \A s \in Sockets :
    {u \in SessionObjs : sessObjs[u].socket = s}
      = IF sessions[s] = NULL THEN {} ELSE {sessions[s]}

\* Two offers of one socket were handled, the second while the first was
\* suspended at the endpoint creation, and the socket has its one session.
C10_Witness ==
  \E o1, o2 \in Offers :
    /\ o1 < o2
    /\ off[o1].socket = off[o2].socket
    /\ off[o1].pc = "awaitCreate"
    /\ sessions[off[o1].socket] = off[o1].session

\* C11: an answer is emitted for an offer only when a publish had started
\* before the offer and the offer's endpoint was created, connected to the
\* source endpoint and had processed the offer; the answers emitted to a
\* socket are exactly those of its offers that got through all steps.
C11_AnswerOnlyAfterAllSteps ==
  /\ \A o \in Offers : off[o].pc = "answered" =>
       /\ off[o].pubsBefore > 0
       /\ off[o].webrtcEndpoint # NULL
       /\ <<off[o].playerEndpoint, off[o].webrtcEndpoint>> \in connections
       /\ endpoints[off[o].webrtcEndpoint].processed
  /\ \A s \in Sockets :
       answers[s] = Cardinality({o \in Offers : /\ off[o].socket = s
                                                /\ off[o].pc = "answered"})

\* One offer was answered, and another one failed after its endpoint was
\* created and got no answer.
C11_Witness ==
  \E o1, o2 \in Offers :
    /\ off[o1].pc = "answered"
    /\ off[o2].pc = "failed"
    /\ off[o2].webrtcEndpoint # NULL
    /\ answers[off[o2].socket] = 0

\* The negotiation state of Session object u.  The server keeps no state
\* field: a session is closed when global.sessions no longer holds it,
\* negotiated when its answer was emitted, and otherwise told apart by its
\* webrtcEndpoint field.
SessionState(u) ==
  IF sessions[sessObjs[u].socket] # u THEN "CLOSED"
  ELSE IF \E o \in Offers : off[o].session = u /\ off[o].pc = "answered"
    THEN "NEGOTIATED"
  ELSE IF sessObjs[u].webrtcEndpoint # NULL THEN "ENDPOINT_READY"
  ELSE "ENDPOINT_PENDING"

\* C12: a session is negotiated only if its endpoint was created, connected
\* to the source endpoint and processed the offer; and the session of an
\* offer whose handling failed is closed.
C12_FailedOfferClosesSession ==
  \A o \in Offers : off[o].session # NULL =>
    /\ SessionState(off[o].session) = "NEGOTIATED" =>
         /\ off[o].webrtcEndpoint # NULL
         /\ <<off[o].playerEndpoint, off[o].webrtcEndpoint>> \in connections
         /\ endpoints[off[o].webrtcEndpoint].processed
    /\ off[o].pc = "failed" => SessionState(off[o].session) = "CLOSED"

\* C13: when the handling of an offer has failed, global.sessions has no
\* entry for the offer's socket any more, and the endpoint created for the
\* offer, if any, has been released.
C13_FailedSessionDestroyed ==
  \A o \in Offers : off[o].pc = "failed" =>
    /\ sessions[off[o].socket] = NULL
    /\ off[o].webrtcEndpoint # NULL =>
         endpoints[off[o].webrtcEndpoint].released

\* C14: while the connection of a socket id is closed, global.sessions has
\* no session for the id and no endpoint made for the id is unreleased; and
\* the session that global.sessions holds for a socket id was made for the
\* id's present connection, never for an earlier one.
C14_ClosedConnectionLeavesNoSession ==
  /\ \A s \in closed :
       /\ sessions[s] = NULL
       /\ \A e \in Endpoints :
            endpoints[e].socket = s => endpoints[e].released
  /\ \A s \in Sockets :
       sessions[s] # NULL => sessObjs[sessions[s]].gen = gen[s]

\* C15: with a single viewer, once every handler has returned and no
\* media-server call has rejected, the viewer's first offer, sent after its
\* publish request, has been answered exactly once and its session is
\* negotiated.
C15_PublishThenOfferAnswered ==
  ( /\ \A p \in Pubs : pub[p].pc = "done"
    /\ \A o \in Offers : /\ off[o].pc \in {"answered", "failed", "skipped"}
                          /\ ~off[o].rejected
                          /\ off[o].errors = 0 )
  => \A o \in Offers : (off[o].pubsBefore > 0 /\ ~off[o].hadSession) =>
       /\ off[o].pc = "answered"
       /\ answers[off[o].socket] = 1
       /\ SessionState(off[o].session) = "NEGOTIATED"

Debugs == 1..Len(dbg)

\* C17: when handleDebugDot has returned, the export of the pipeline graph
\* and the export of the source endpoint's graph have both been attempted,
\* whatever became of the other one.
C17_BothExportsAttempted ==
  \A d \in Debugs : dbg[d].pc \in {"done", "failed"} =>
    /\ dbg[d].pipelineDot # "none"
    /\ dbg[d].playerDot # "none"

\* C16: no error leaves a message handler as a rejected promise that
\* nothing catches: every failed media-server call, also one made on a
\* pipeline, endpoint or client that does not exist yet, is caught in the
\* handler and logged.
C16_NoUncaughtError ==
  /\ uncaught = 0
  /\ \A p \in Pubs : pub[p].pc # "threw"
  /\ \A o \in Offers : off[o].pc # "threw"
  /\ \A d \in Debugs : dbg[d].pc # "threw"

\* C18: a CLIENT_ICE_CANDIDATE for a socket that has no session creates no
\* session, makes no media-server call and leaves the session registry,
\* every session's queue and the publisher state as they were.
C18_CandidateWithoutSessionChangesNothing ==
  [][\A s \in Sockets :
       (ncand'[s] # ncand[s] /\ sessions[s] = NULL) =>
         UNCHANGED <<sessions, sessObjs, endpoints, connections, pipeline,
                     playerEndpoint, npipelines, players, pub, off,
                     answers>>]_vars

\* A candidate was received for a socket without a session while another
\* socket's session held queued candidates.
C18_Witness ==
  \E s, t \in Sockets :
    /\ ncand[s] > 0
    /\ sessions[s] = NULL
    /\ sessions[t] # NULL
    /\ sessObjs[sessions[t]].pendingCandidates # <<>>

\* C19: a rejected addIceCandidate during the drain of the pending queue
\* does not end the drain or the offer: the handler goes on with the next
\* queued candidate, and when it has emitted the answer every candidate that
\* was queued for the session has been given to the endpoint.
C19_DrainSurvivesCandidateFailure ==
  \A o \in Offers : off[o].errors > 0 =>
    /\ off[o].pc \in {"awaitAddIce", "answered"}
    /\ off[o].pc = "answered" =>
         /\ sessObjs[off[o].session].pendingCandidates = <<>>
         /\ Range(sessObjs[off[o].session].enqueued) \subseteq
              Range(endpoints[off[o].webrtcEndpoint].applied)

\* An offer was answered although one of its two or more queued candidates
\* was rejected by the endpoint.
C19_Witness ==
  \E o \in Offers :
    /\ off[o].pc = "answered"
    /\ off[o].errors >= 1
    /\ Len(sessObjs[off[o].session].enqueued) >= 2
    /\ Len(endpoints[off[o].webrtcEndpoint].applied) >= 2

\* C20: processOffer is never called while candidates are still queued for
\* the session: the queue is drained into the new endpoint first.
C20_DrainBeforeProcessOffer ==
  \A o \in Offers : off[o].pc = "awaitProcessOffer" =>
    sessObjs[off[o].session].pendingCandidates = <<>>

\* C21: whatever offers, candidates and publish requests a socket sends, and
\* whichever media-server calls fail, at most one SERVER_SDP_ANSWER is
\* emitted to it.
C21_AtMostOneAnswerPerSocket ==
  \A s \in Sockets : answers[s] <= 1

\* A socket got its answer and sent a further offer, which has been handled.
C21_Witness ==
  \E o1, o2 \in Offers :
    /\ o1 < o2
    /\ off[o1].socket = off[o2].socket
    /\ off[o1].pc = "answered"
    /\ off[o2].pc \in {"skipped", "failed", "answered"}
    /\ answers[off[o1].socket] = 1

\* C22: whenever handleSdpOffer calls connect on the source endpoint and
\* the viewer's endpoint, the two were created on the same pipeline.
C22_ConnectWithinOnePipeline ==
  \A o \in Offers :
    (off[o].playerEndpoint # NULL /\ off[o].webrtcEndpoint # NULL) =>
      players[off[o].playerEndpoint] = endpoints[off[o].webrtcEndpoint].pipeline

\* The number of times candidate c occurs in the sequence q.
Occurrences(q, c) == Cardinality({i \in 1..Len(q) : q[i] = c})

\* C23: once the answer of an offer has been emitted, the pending queue of
\* its session is empty, in that state and in every later one, and every
\* candidate that was ever queued in the session has been given to the
\* endpoint exactly once.
C23_QueueEmptyFromAnswerOn ==
  \A o \in Offers : off[o].pc = "answered" =>
    LET u == off[o].session
        e == off[o].webrtcEndpoint
    IN /\ sessObjs[u].pendingCandidates = <<>>
       /\ \A i \in 1..Len(sessObjs[u].enqueued) :
            Occurrences(endpoints[e].applied, sessObjs[u].enqueued[i]) = 1

\* An answered offer whose session had queued two candidates, or had queued
\* one and received another one after the drain.
C23_Witness ==
  \E o \in Offers :
    /\ off[o].pc = "answered"
    /\ Len(sessObjs[off[o].session].enqueued) >= 1
    /\ Len(endpoints[off[o].webrtcEndpoint].applied) >= 2

\* C24: a candidate that the media server finds for an endpoint is emitted
\* only to the socket whose offer created the endpoint, and a candidate
\* sent by a socket is queued only in, and applied only to the endpoint of,
\* the session of that socket.
C24_ViewerIsolation ==
  /\ \A s \in Sockets : \A e \in serverIce[s] : endpoints[e].socket = s
  /\ \A u \in SessionObjs :
       \A c \in Range(sessObjs[u].enqueued)
                 \cup Range(sessObjs[u].pendingCandidates) :
         c[1] = sessObjs[u].socket
  /\ \A e \in Endpoints :
       \A c \in Range(endpoints[e].applied) : c[1] = endpoints[e].socket

\* A candidate of a viewer's endpoint was emitted to that viewer while
\* global.server.socket was another socket, and a viewer has sent a
\* candidate that was queued or applied.
C24_Witness ==
  /\ \E s \in Sockets : serverIce[s] # {} /\ serverSocket # s
  /\ \/ \E u \in SessionObjs : sessObjs[u].enqueued # <<>>
     \/ \E e \in Endpoints : endpoints[e].applied # <<>>
====
